---- MODULE Spec2Model ----
(***************************************************************************)
(* Model of js/main.js: the fractal tree "garden".  A GardenDirector owns  *)
(* a FIFO queue of Tree descriptors and a threshold; an interval timer     *)
(* calls work(), which shifts one tree, draws it and plans its two         *)
(* children.  start() and stop() are the two entry points of the page.     *)
(***************************************************************************)
EXTENDS Integers, Sequences, FiniteSets, TLC

(***************************************************************************)
(* Bounds of the model.                                                    *)
(***************************************************************************)
\* most interval timers alive at once (start() is not offered beyond it)
MaxTimers == 2
\* longest queue a timer tick is still offered on (a complete tree of a
\* ratio in (0,1) never holds more than 256 descriptors)
MaxTrees == 257

(***************************************************************************)
(* JavaScript numbers.  A Number is NaN or an exact rational num/den in    *)
(* lowest terms.  ulp is an infinitesimal offset: it records on which side *)
(* of the exact value a rounded double fell, relative to the chain of      *)
(* rounded products that reaches the same exact value.                     *)
(***************************************************************************)
RECURSIVE Gcd(_, _)
Gcd(a, b) == IF b = 0 THEN a ELSE Gcd(b, a % b)

Abs(n) == IF n < 0 THEN -n ELSE n

NaN == [nan |-> TRUE, num |-> 0, den |-> 1, ulp |-> 0]

Num(n, d) ==
  LET g == Gcd(Abs(n), d)
  IN  [nan |-> FALSE, num |-> n \div g, den |-> d \div g, ulp |-> 0]

\* a * b
Times(a, b) ==
  IF a.nan \/ b.nan THEN NaN
  ELSE LET g1 == Gcd(Abs(a.num), b.den)
           g2 == Gcd(Abs(b.num), a.den)
       IN  [nan |-> FALSE,
            num |-> (a.num \div g1) * (b.num \div g2),
            den |-> (a.den \div g2) * (b.den \div g1),
            ulp |-> 0]

\* a < b : false as soon as one side is NaN
Less(a, b) ==
  /\ ~a.nan
  /\ ~b.nan
  /\ LET gn == Gcd(Abs(a.num), Abs(b.num))
         g  == IF gn = 0 THEN 1 ELSE gn
         gd == Gcd(a.den, b.den)
         l  == (a.num \div g) * (b.den \div gd)
         r  == (b.num \div g) * (a.den \div gd)
     IN  l < r \/ (l = r /\ a.ulp < b.ulp)

\* b ** e, exact
RECURSIVE Exponentiate(_, _)
Exponentiate(b, e) == IF e = 0 THEN Num(1, 1) ELSE Times(b, Exponentiate(b, e - 1))

(***************************************************************************)
(* Angles are kept in units of PI/360, so that half of a whole number of   *)
(* degrees is exact.  Coordinates are kept in 1/100 pixel.                 *)
(***************************************************************************)
HalfTurn == 360

\* Math.PI * degrees / 180, for a finite number of degrees
ToRadians(degrees) == (HalfTurn * degrees.num) \div (180 * degrees.den)

\* 1000 * cos(k * 15 degrees), k = 0..23
CosTable ==
  << 1000, 966, 866, 707, 500, 259, 0, -259, -500, -707, -866, -966,
     -1000, -966, -866, -707, -500, -259, 0, 259, 500, 707, 866, 966 >>

Cos(a) == CosTable[((a % (2 * HalfTurn)) \div 30) + 1]

Sin(a) == Cos(a - HalfTurn \div 2)

\* a coordinate: NaN or a whole number of 1/100 pixel
Coord(v) == [nan |-> FALSE, v |-> v]

NaNCoord == [nan |-> TRUE, v |-> 0]

\* trig * length + base, with sign = 1, or base - trig * length, with sign = -1
Offset(base, sign, trig, length) ==
  IF base.nan \/ length.nan THEN NaNCoord
  ELSE LET cent == (length.num * 100) \div length.den
       IN  Coord(base.v + sign * ((trig * cent + 500) \div 1000))

Point(x, y) == [x |-> x, y |-> y]

(***************************************************************************)
(* Tree: a Y-shape formed with a trunk and two branches.  gen and id are   *)
(* not fields of the code: gen counts the planNextTrees calls behind the   *)
(* tree, and id is the identity of the object, 1 for the initial tree, 2n  *)
(* for the first and 2n + 1 for the second tree planned from tree n.       *)
(***************************************************************************)
Tree(root, trunkHeight, branchRatio, branchAngle, treeIncline, gen, id) ==
  [root |-> root, trunkHeight |-> trunkHeight, branchRatio |-> branchRatio,
   branchAngle |-> branchAngle, treeIncline |-> treeIncline, gen |-> gen,
   id |-> id]

P0(tree) == tree.root

P1(tree) ==
  LET a == tree.treeIncline - HalfTurn \div 2
  IN  Point(Offset(P0(tree).x, 1, Cos(a), tree.trunkHeight),
            Offset(P0(tree).y, 1, Sin(a), tree.trunkHeight))

P2(tree) ==
  LET a == tree.branchAngle \div 2 - tree.treeIncline
      branchLength == Times(tree.trunkHeight, tree.branchRatio)
  IN  Point(Offset(P1(tree).x, -1, Sin(a), branchLength),
            Offset(P1(tree).y, -1, Cos(a), branchLength))

P3(tree) ==
  LET a == tree.branchAngle \div 2 + tree.treeIncline
      branchLength == Times(tree.trunkHeight, tree.branchRatio)
  IN  Point(Offset(P1(tree).x, 1, Sin(a), branchLength),
            Offset(P1(tree).y, -1, Cos(a), branchLength))

(***************************************************************************)
(* The page's form: the text of the three inputs and the canvas size.      *)
(* Number(text) is NaN for text that is not a numeric literal and 0 for    *)
(* the empty text.                                                         *)
(***************************************************************************)
ToNumber(text) ==
  CASE text = "100"  -> Num(100, 1)
    [] text = "70"   -> Num(70, 1)
    [] text = "-100" -> Num(-100, 1)
    [] text = ""     -> Num(0, 1)
    [] text = "0.5"  -> Num(1, 2)
    [] text = "0.7"  -> Num(7, 10)
    [] text = "0.8"  -> Num(4, 5)
    [] text = "1"    -> Num(1, 1)
    [] text = "1.5"  -> Num(3, 2)
    [] text = "30"   -> Num(30, 1)
    [] text = "60"   -> Num(60, 1)
    [] text = "90"   -> Num(90, 1)
    [] OTHER         -> NaN

Form(trunkHeight, branchRatio, branchAngle) ==
  [trunkHeight |-> trunkHeight, branchRatio |-> branchRatio,
   branchAngle |-> branchAngle, width |-> 600, height |-> 400]

Forms ==
  { Form("100", "0.7", "30"), Form("70", "0.8", "60"), Form("100", "0.5", "90"),
    Form("100", "1", "30"), Form("100", "1.5", "30"), Form("abc", "0.5", "30"),
    Form("", "0.5", "30"), Form("-100", "0.5", "30"), Form("", "1.5", "30") }

\* the configuration the spec calls well-formed: a finite positive trunk
\* height and a branch ratio strictly between 0 and 1
WellFormed(f) ==
  /\ Less(Num(0, 1), ToNumber(f.trunkHeight))
  /\ Less(Num(0, 1), ToNumber(f.branchRatio))
  /\ Less(ToNumber(f.branchRatio), Num(1, 1))

(***************************************************************************)
(* trunkHeight * branchRatio ** 7 and the seven rounded multiplications    *)
(* trunkHeight * branchRatio * ... * branchRatio have the same exact value *)
(* but need not round to the same double.  RoundingSides gives the sign of *)
(* the first minus the second in IEEE-754 double arithmetic, for a **      *)
(* that is within one unit in the last place: 100 * 0.7 ** 7 is            *)
(* 8.235429999999996 and the products reach 8.23543; 70 * 0.8 ** 7 is      *)
(* 14.680064000000005 and the products reach 14.680064000000002; products  *)
(* of dyadic ratios, of 0 and of 1 are exact.                              *)
(***************************************************************************)
RoundingSides(trunkHeight, branchRatio) ==
  IF trunkHeight = Num(100, 1) /\ branchRatio = Num(7, 10) THEN {-1}
  ELSE IF trunkHeight = Num(70, 1) /\ branchRatio = Num(4, 5) THEN {1}
  ELSE {0}

Rounded(n, side) == IF n.nan THEN n ELSE [n EXCEPT !.ulp = side]

\* a threshold one generation short: branchRatio ** 6
MaxTrunkHeightsSixth(tree) ==
  { Rounded(Times(tree.trunkHeight, Exponentiate(tree.branchRatio, 6)), side) :
      side \in RoundingSides(tree.trunkHeight, tree.branchRatio) }

\* this.trees[0].trunkHeight * this.trees[0].branchRatio ** 7
MaxTrunkHeights(tree) ==
  { Rounded(Times(tree.trunkHeight, Exponentiate(tree.branchRatio, 7)), side) :
      side \in RoundingSides(tree.trunkHeight, tree.branchRatio) }

\* GardenSpec: the initial trees read from the form
InitialTrees(f) ==
  << Tree(Point(Coord((f.width * 100) \div 2), Coord(f.height * 88)),
          ToNumber(f.trunkHeight),
          ToNumber(f.branchRatio),
          ToRadians(ToNumber(f.branchAngle)),
          0, 0, 1) >>

(***************************************************************************)
(* State.                                                                  *)
(*   form            the page's inputs                                     *)
(*   gardenDirector  window.gardenDirector: Null or a director             *)
(*   directors       the GardenDirector objects still reachable            *)
(*   timers          the live interval timers, each with its director      *)
(*   canvas          the strokes on the canvas, oldest first               *)
(*   tally           bookkeeping of the installed director's run: how many *)
(*                   trees were pushed and shifted, the generations drawn  *)
(*                   in order, the ids shifted and the ids drawn           *)
(*   last            the last call made: its name, director, shifted tree  *)
(***************************************************************************)
VARIABLES form, gardenDirector, directors, timers, canvas, tally, last

vars == <<form, gardenDirector, directors, timers, canvas, tally, last>>

Null == 0

Ids == 1..MaxTimers

NoTally == [planted |-> 0, shifted |-> 0, drawn |-> << >>, gone |-> {}, inked |-> {}]

Last(op, dir, tree, threw) == [op |-> op, dir |-> dir, tree |-> tree, threw |-> threw]

\* new GardenDirector(), for one rounding of the threshold
GardenDirector(f, maxTrunkHeight) ==
  [trees |-> InitialTrees(f), maxTrunkHeight |-> maxTrunkHeight, timerId |-> Null]

\* the three strokes in one style
DrawTreeOneStyle(tree) ==
  << [from |-> P0(tree), to |-> P1(tree), style |-> "#333344"],
     [from |-> P1(tree), to |-> P2(tree), style |-> "#333344"],
     [from |-> P1(tree), to |-> P3(tree), style |-> "#333344"] >>

\* the strokes of drawTree, in order
DrawTree(tree) ==
  << [from |-> P0(tree), to |-> P1(tree), style |-> "#333344"],
     [from |-> P1(tree), to |-> P2(tree), style |-> "#333344"],
     [from |-> P1(tree), to |-> P3(tree), style |-> "#AA3340"] >>

\* children as tall as their parent
PlanNextTreesSameHeight(sourceTree) ==
  LET root == P1(sourceTree)
      treeInclineLeft == sourceTree.treeIncline - sourceTree.branchAngle \div 2
      treeInclineRight == sourceTree.treeIncline + sourceTree.branchAngle \div 2
  IN  << Tree(root, sourceTree.trunkHeight, sourceTree.branchRatio,
              sourceTree.branchAngle, treeInclineLeft, sourceTree.gen + 1,
              2 * sourceTree.id),
         Tree(root, sourceTree.trunkHeight, sourceTree.branchRatio,
              sourceTree.branchAngle, treeInclineRight, sourceTree.gen + 1,
              2 * sourceTree.id + 1) >>

\* the two inclines exchanged
PlanNextTreesRightFirst(sourceTree) ==
  LET root == P1(sourceTree)
      trunkHeight == Times(sourceTree.trunkHeight, sourceTree.branchRatio)
      treeInclineLeft == sourceTree.treeIncline - sourceTree.branchAngle \div 2
      treeInclineRight == sourceTree.treeIncline + sourceTree.branchAngle \div 2
  IN  << Tree(root, trunkHeight, sourceTree.branchRatio, sourceTree.branchAngle,
              treeInclineRight, sourceTree.gen + 1, 2 * sourceTree.id),
         Tree(root, trunkHeight, sourceTree.branchRatio, sourceTree.branchAngle,
              treeInclineLeft, sourceTree.gen + 1, 2 * sourceTree.id + 1) >>

\* trunkHeight and branchRatio passed in each other's place
PlanNextTreesSwappedArguments(sourceTree) ==
  LET root == P1(sourceTree)
      trunkHeight == Times(sourceTree.trunkHeight, sourceTree.branchRatio)
      treeInclineLeft == sourceTree.treeIncline - sourceTree.branchAngle \div 2
      treeInclineRight == sourceTree.treeIncline + sourceTree.branchAngle \div 2
  IN  << Tree(root, sourceTree.branchRatio, trunkHeight, sourceTree.branchAngle,
              treeInclineLeft, sourceTree.gen + 1, 2 * sourceTree.id),
         Tree(root, sourceTree.branchRatio, trunkHeight, sourceTree.branchAngle,
              treeInclineRight, sourceTree.gen + 1, 2 * sourceTree.id + 1) >>

\* the children rooted where their parent is rooted
PlanNextTreesSameRoot(sourceTree) ==
  LET trunkHeight == Times(sourceTree.trunkHeight, sourceTree.branchRatio)
      treeInclineLeft == sourceTree.treeIncline - sourceTree.branchAngle \div 2
      treeInclineRight == sourceTree.treeIncline + sourceTree.branchAngle \div 2
  IN  << Tree(sourceTree.root, trunkHeight, sourceTree.branchRatio,
              sourceTree.branchAngle, treeInclineLeft, sourceTree.gen + 1,
              2 * sourceTree.id),
         Tree(sourceTree.root, trunkHeight, sourceTree.branchRatio,
              sourceTree.branchAngle, treeInclineRight, sourceTree.gen + 1,
              2 * sourceTree.id + 1) >>

\* the trees planNextTrees pushes
PlanNextTrees(sourceTree) ==
  LET root == P1(sourceTree)
      trunkHeight == Times(sourceTree.trunkHeight, sourceTree.branchRatio)
      branchRatio == sourceTree.branchRatio
      branchAngle == sourceTree.branchAngle
      treeInclineLeft == sourceTree.treeIncline - branchAngle \div 2
      treeInclineRight == sourceTree.treeIncline + branchAngle \div 2
  IN  << Tree(root, trunkHeight, branchRatio, branchAngle, treeInclineLeft,
              sourceTree.gen + 1, 2 * sourceTree.id),
         Tree(root, trunkHeight, branchRatio, branchAngle, treeInclineRight,
              sourceTree.gen + 1, 2 * sourceTree.id + 1) >>

\* a <= b
LessEq(a, b) == Less(a, b) \/ (~a.nan /\ ~b.nan /\ ~Less(b, a))

\* the test with <= for <
ReturnsAtThreshold(tree, maxTrunkHeight) ==
  tree = << >> \/ LessEq(tree[1].trunkHeight, maxTrunkHeight)

\* the test without !tree
ReturnsOnlyBelow(tree, maxTrunkHeight) ==
  tree # << >> /\ Less(tree[1].trunkHeight, maxTrunkHeight)

\* the test of work(): !tree || tree.trunkHeight < this.maxTrunkHeight,
\* tree being << >> for undefined
Returns(tree, maxTrunkHeight) ==
  tree = << >> \/ Less(tree[1].trunkHeight, maxTrunkHeight)

\* the smallest free handle
Fresh(used) == CHOOSE i \in Ids \ used : \A j \in Ids \ used : i <= j

Init ==
  /\ form \in Forms
  /\ gardenDirector = Null
  /\ directors = [i \in {} |-> Null]
  /\ timers = {}
  /\ canvas = << >>
  /\ tally = NoTally
  /\ last = Last("none", Null, << >>, FALSE)

\* run(): a new interval timer on director d, whose handle replaces timerId
Run(ds, d, id) == [ds EXCEPT ![d].timerId = id]

\* start()
Start ==
  /\ Cardinality(timers) < MaxTimers
  /\ LET id == Fresh({t.id : t \in timers})
     IN  IF gardenDirector = Null
         THEN \E maxTrunkHeight \in MaxTrunkHeights(InitialTrees(form)[1]) :
                LET d == Fresh(DOMAIN directors)
                    made == [i \in DOMAIN directors \cup {d} |->
                               IF i = d THEN GardenDirector(form, maxTrunkHeight)
                               ELSE directors[i]]
                IN  /\ gardenDirector' = d
                    /\ directors' = Run(made, d, id)
                    /\ timers' = timers \cup {[id |-> id, dir |-> d]}
                    /\ tally' = [NoTally EXCEPT !.planted = Len(made[d].trees)]
                    /\ last' = Last("start", d, << >>, FALSE)
         ELSE /\ gardenDirector' = gardenDirector
              /\ directors' = Run(directors, gardenDirector, id)
              /\ timers' = timers \cup {[id |-> id, dir |-> gardenDirector]}
              /\ tally' = tally
              /\ last' = Last("start", gardenDirector, << >>, FALSE)
  /\ UNCHANGED <<form, canvas>>

\* a retire() that keeps the trees
RetireKeepsTrees(dir) == [dir EXCEPT !.timerId = Null]

\* retire(): the director after it
Retire(dir) == [dir EXCEPT !.timerId = Null, !.trees = << >>]

\* clearInterval(this.timerId), guarded: the timers left
Cleared(ts, dir) == IF dir.timerId # Null THEN {t \in ts : t.id # dir.timerId} ELSE ts

\* a clearRect that leaves the strokes
ClearRectNothing(strokes) == strokes

\* clearRect(0, 0, width, height)
ClearRect(strokes) == << >>

\* stop()
Stop ==
  /\ IF gardenDirector # Null
     THEN LET left == Cleared(timers, directors[gardenDirector])
              kept == {t.dir : t \in left}
          IN  /\ timers' = left
              /\ directors' = [i \in kept |->
                                 IF i = gardenDirector THEN Retire(directors[i])
                                 ELSE directors[i]]
              /\ canvas' = ClearRect(canvas)
     ELSE UNCHANGED <<timers, directors, canvas>>
  /\ gardenDirector' = Null
  /\ tally' = NoTally
  /\ last' = Last("stop", gardenDirector, << >>, FALSE)
  /\ UNCHANGED form

\* a shift() that leaves the front tree in the array
ShiftedKeepsFront(trees) == trees

\* the array after this.trees.shift()
Shifted(trees) == IF trees = << >> THEN << >> ELSE Tail(trees)

\* unshift for push: the planned trees go to the front
PushFront(trees, planned) == planned \o trees

\* the array after this.trees.push(...)
Push(trees, planned) == trees \o planned

\* work(), called by timer t.  drawTree(undefined) would throw a TypeError
\* at tree.p0, before any stroke and before planNextTrees.
Work(t) ==
  LET d == t.dir
      dir == directors[d]
      tree == IF dir.trees = << >> THEN << >> ELSE << Head(dir.trees) >>
      rest == Shifted(dir.trees)
      counted == d = gardenDirector /\ tree # << >>
  IN  /\ Len(dir.trees) < MaxTrees
      /\ IF Returns(tree, dir.maxTrunkHeight) \/ tree = << >>
         THEN /\ last' = Last("tick", d, tree, ~Returns(tree, dir.maxTrunkHeight))
              /\ directors' = [directors EXCEPT ![d].trees = rest]
              /\ canvas' = canvas
              /\ tally' = IF counted
                          THEN [tally EXCEPT !.shifted = @ + 1,
                                             !.gone = @ \cup {tree[1].id}]
                          ELSE tally
         ELSE /\ last' = Last("tick", d, tree, FALSE)
              /\ directors' = [directors EXCEPT
                                 ![d].trees = Push(rest, PlanNextTrees(tree[1]))]
              /\ canvas' = canvas \o DrawTree(tree[1])
              /\ tally' = IF counted
                          THEN [tally EXCEPT !.shifted = @ + 1,
                                             !.planted = @ + 2,
                                             !.drawn = Append(@, tree[1].gen),
                                             !.gone = @ \cup {tree[1].id},
                                             !.inked = @ \cup {tree[1].id}]
                          ELSE tally
      /\ UNCHANGED <<form, gardenDirector, timers>>

Tick == \E t \in timers : Work(t)

Next == Start \/ Stop \/ Tick

Spec == Init /\ [][Next]_vars

(***************************************************************************)
(* Properties.                                                             *)
(***************************************************************************)
\* the program's own state: everything but the record of the last call
prog == <<form, gardenDirector, directors, timers, canvas, tally>>

\* the timers that call work() on the installed director
OwnTimers == {t \in timers : t.dir = gardenDirector}

Running == gardenDirector # Null

\* the installed director has worked its queue empty
Complete == Running /\ directors[gardenDirector].trees = << >> /\ tally.shifted > 0

\* how many trees of generation g have been drawn in this run
DrawnAt(g) == Cardinality({i \in 1..Len(tally.drawn) : tally.drawn[i] = g})

Scenario == form = Form("100", "0.7", "30")

\* C1: start() while a director is installed has no additional effect: one
\* live timer calls work() on it, and directors, timers and canvas are as
\* they were.
C1_StartIdempotent ==
  [][(last'.op = "start" /\ Running)
       => (Cardinality(OwnTimers') = 1 /\ UNCHANGED <<directors, timers, canvas>>)]_vars

\* C2: while no director is installed (before the first start(), and from
\* a stop() to the next start()) no timer is live and no work() fires.
C2_NoStepWhileStopped ==
  [][~Running => (timers = {} /\ last'.op # "tick")]_vars

C4_SevenGenerations ==
  (WellFormed(form) /\ Running)
    => /\ \A i \in 1..Len(tally.drawn) : tally.drawn[i] <= 7
       /\ Complete => \A g \in 0..7 : DrawnAt(g) = 2^g

\* C5, as stated: with trunk height 100 and ratio 0.7, no descriptor of
\* generation 7 is ever drawn, and a run that has emptied its queue has
\* drawn the generations 0..6 in full.
C5_Generation7Discarded ==
  (Scenario /\ Running)
    => /\ \A i \in 1..Len(tally.drawn) : tally.drawn[i] <= 6
       /\ Complete => \A g \in 0..6 : DrawnAt(g) = 2^g

\* C5, amended: with trunk height 100 and ratio 0.7, no descriptor of
\* generation 8 is ever drawn or gets children, and a run that has emptied
\* its queue has drawn the generations 0..7 in full.
C5_Generation8Discarded ==
  (Scenario /\ Running)
    => /\ \A i \in 1..Len(tally.drawn) : tally.drawn[i] <= 7
       /\ \A i \in 1..Len(directors[gardenDirector].trees) :
            directors[gardenDirector].trees[i].gen <= 8
       /\ Complete => (Len(tally.drawn) = 2^8 - 1 /\ \A g \in 0..7 : DrawnAt(g) = 2^g)

\* the scenario's run has emptied its queue, the last descriptor dequeued
\* being of generation 8 and discarded
C5_Witness ==
  /\ Scenario
  /\ Complete
  /\ last.op = "tick"
  /\ last.tree # << >>
  /\ last.tree[1].gen = 8
  /\ DrawnAt(7) = 2^7

\* C6: every stop() ends with no director installed, a blank canvas, every
\* queue empty and no timer handle held, and raises nothing; a stop() with
\* no director installed changes nothing.
C6_StopIdempotent ==
  [][last'.op = "stop"
       => /\ ~last'.threw
          /\ gardenDirector' = Null
          /\ canvas' = << >>
          /\ \A d \in DOMAIN directors' :
               directors'[d].trees = << >> /\ directors'[d].timerId = Null
          /\ ~Running => UNCHANGED prog]_vars

\* a stop() made with no director installed, after an earlier run
C6_Witness ==
  last.op = "stop" /\ last.dir = Null /\ timers # {}

\* C7: stop() leaves every queue empty and the canvas blank; a start() with
\* no director installed queues exactly one tree, of generation 0 and
\* incline 0, read from the form; and a tick of a director that is no
\* longer installed finds no tree and draws nothing.
C7_StopDiscards ==
  [][/\ last'.op = "stop"
          => (canvas' = << >> /\ \A d \in DOMAIN directors' : directors'[d].trees = << >>)
     /\ (last'.op = "start" /\ ~Running)
          => LET trees == directors'[gardenDirector'].trees
             IN  /\ Len(trees) = 1
                 /\ trees[1].gen = 0
                 /\ trees[1].treeIncline = 0
                 /\ trees[1].trunkHeight = ToNumber(form.trunkHeight)
                 /\ canvas' = << >>
     /\ (last'.op = "tick" /\ last'.dir # gardenDirector)
          => (last'.tree = << >> /\ canvas' = canvas)]_vars

\* a start() after the stop() of a director that had been started twice
C7_Witness ==
  /\ last.op = "start"
  /\ tally.planted = 1
  /\ \E t \in timers : t.dir # gardenDirector

\* C8: a malformed form is reported: no director is installed and no timer
\* is started for it.
C8_MalformedReported ==
  ~WellFormed(form) => (gardenDirector = Null /\ timers = {})

\* C9: a tick on a non-empty queue removes the front tree; below the
\* threshold nothing is drawn and nothing queued, otherwise three strokes
\* are drawn and two trees of the next generation are appended at the tail.
C9_StepThreshold ==
  [][(last'.op = "tick" /\ last'.tree # << >>)
       => LET d == last'.dir
              q == directors[d].trees
              r == directors'[d].trees
              front == last'.tree[1]
          IN  /\ front = Head(q)
              /\ IF Less(front.trunkHeight, directors[d].maxTrunkHeight)
                 THEN r = Tail(q) /\ canvas' = canvas
                 ELSE /\ Len(r) = Len(q) + 1
                      /\ SubSeq(r, 1, Len(q) - 1) = Tail(q)
                      /\ r[Len(r) - 1].gen = front.gen + 1
                      /\ r[Len(r)].gen = front.gen + 1
                      /\ Len(canvas') = Len(canvas) + 3
                      /\ SubSeq(canvas', 1, Len(canvas)) = canvas]_vars

\* a tree exactly as tall as the threshold was dequeued and drawn
C9_Witness ==
  /\ WellFormed(form)
  /\ last.op = "tick"
  /\ last.tree # << >>
  /\ last.dir = gardenDirector
  /\ last.tree[1].trunkHeight = directors[gardenDirector].maxTrunkHeight
  /\ Len(tally.drawn) > 0
  /\ tally.drawn[Len(tally.drawn)] = last.tree[1].gen
  /\ Len(directors[gardenDirector].trees) > 1

\* C10: a tick on an empty queue changes nothing and raises nothing.
C10_EmptyStep ==
  [][(last'.op = "tick" /\ last'.tree = << >>)
       => (~last'.threw /\ UNCHANGED prog)]_vars

\* the installed director of a well-formed form, still ticking after it drew
\* its tree and emptied its queue
C10_Witness ==
  /\ WellFormed(form)
  /\ last.op = "tick"
  /\ last.tree = << >>
  /\ last.dir = gardenDirector
  /\ Complete
  /\ Len(tally.drawn) > 0

\* the generations of a queue never decrease from front to back and span
\* at most two consecutive generations
Layered(q) ==
  /\ \A i \in 1..(Len(q) - 1) : q[i].gen <= q[i + 1].gen
  /\ q # << >> => q[Len(q)].gen <= q[1].gen + 1

\* C11: growth is breadth-first: every queue is layered, the generations
\* drawn never decrease, a dequeued tree is of no later generation than any
\* tree left in the queue, and of the two trees pushed after a drawing the
\* left one (incline less half the angle) comes right before the right one.
C11_BreadthFirst ==
  [][/\ \A d \in DOMAIN directors' : Layered(directors'[d].trees)
     /\ \A i \in 1..(Len(tally'.drawn) - 1) : tally'.drawn[i] <= tally'.drawn[i + 1]
     /\ (last'.op = "tick" /\ last'.tree # << >>)
          => LET front == last'.tree[1]
                 q == directors[last'.dir].trees
                 r == directors'[last'.dir].trees
             IN  /\ \A i \in 1..Len(q) : front.gen <= q[i].gen
                 /\ Len(r) > Len(q)
                      => /\ r[Len(r) - 1].treeIncline
                              = front.treeIncline - front.branchAngle \div 2
                         /\ r[Len(r)].treeIncline
                              = front.treeIncline + front.branchAngle \div 2
                         /\ r[Len(r) - 1].id = 2 * front.id
                         /\ r[Len(r)].id = 2 * front.id + 1]_vars

\* a well-formed run whose queue holds trees of two generations
C11_Witness ==
  /\ WellFormed(form)
  /\ Running
  /\ Len(tally.drawn) > 2
  /\ LET q == directors[gardenDirector].trees
     IN  Len(q) > 2 /\ q[Len(q)].gen = q[1].gen + 1

\* C12: the queued trees are distinct objects, none of them was dequeued
\* before, every drawn tree was drawn once, and a call changes no tree that
\* stays queued: a tick only removes the front and appends new trees, a
\* start() leaves every queue as it was.
C12_DrawnOnce ==
  [][/\ Running'
          => LET r == directors'[gardenDirector'].trees
                 ids == {r[i].id : i \in 1..Len(r)}
             IN  /\ Cardinality(ids) = Len(r)
                 /\ ids \cap tally'.gone = {}
                 /\ Cardinality(tally'.gone) = tally'.shifted
                 /\ Cardinality(tally'.inked) = Len(tally'.drawn)
     /\ last'.op = "tick"
          => \A d \in DOMAIN directors :
               LET q == directors[d].trees
                   r == directors'[d].trees
               IN  IF d = last'.dir /\ q # << >>
                   THEN Len(r) >= Len(q) - 1 /\ SubSeq(r, 1, Len(q) - 1) = Tail(q)
                   ELSE r = q
     /\ (last'.op = "start" /\ Running)
          => \A d \in DOMAIN directors : directors'[d].trees = directors[d].trees]_vars

\* two live timers tick the installed director, which has drawn trees
C12_Witness ==
  /\ last.op = "tick"
  /\ Cardinality(OwnTimers) = 2
  /\ Len(tally.drawn) > 2
  /\ Len(directors[gardenDirector].trees) > 2


\* the trunk height and the branch ratio read from the form
RootHeight == ToNumber(form.trunkHeight)

RootRatio == ToNumber(form.branchRatio)

\* RootHeight * RootRatio ** g as a real number
RealPower(g) == Times(RootHeight, Exponentiate(RootRatio, g))

\* RootHeight * RootRatio ** g as the double the code computes: the code
\* computes it for g = 7, with the rounding of maxTrunkHeight
DoublePower(g) ==
  IF g = 7 THEN directors[gardenDirector].maxTrunkHeight ELSE RealPower(g)

\* the value of a double without the side it was rounded to
Real(n) == Rounded(n, 0)

\* the trees of generation g in the queue of the installed director
QueuedAt(g) ==
  LET q == directors[gardenDirector].trees
  IN  {q[i] : i \in {j \in 1..Len(q) : q[j].gen = g}}

QueuedGens ==
  LET q == directors[gardenDirector].trees
  IN  {q[i].gen : i \in 1..Len(q)}

RECURSIVE RightsLessLefts(_)
RightsLessLefts(id) ==
  IF id = 1 THEN 0
  ELSE (IF id % 2 = 1 THEN 1 ELSE -1) + RightsLessLefts(id \div 2)

\* half the branch angle read from the form
HalfAngle == ToRadians(ToNumber(form.branchAngle)) \div 2

\* C14: of the two trees pushed after a drawing, the first has the drawn
\* tree's incline less half the branch angle and the second that incline
\* plus half the branch angle; so each has incline (r - l) * branchAngle/2,
\* for the l left and r right steps that lead to it; the initial tree has
\* incline 0.
C14_AngleSymmetry ==
  [][/\ (last'.op = "start" /\ ~Running)
          => directors'[gardenDirector'].trees[1].treeIncline = 0
     /\ (last'.op = "tick" /\ last'.tree # << >>)
          => LET front == last'.tree[1]
                 q == directors[last'.dir].trees
                 r == directors'[last'.dir].trees
                 left == r[Len(r) - 1]
                 right == r[Len(r)]
             IN  Len(r) > Len(q)
                   => /\ left.id = 2 * front.id
                      /\ right.id = 2 * front.id + 1
                      /\ left.treeIncline = front.treeIncline - HalfAngle
                      /\ right.treeIncline = front.treeIncline + HalfAngle
                      /\ left.treeIncline = RightsLessLefts(left.id) * HalfAngle
                      /\ right.treeIncline = RightsLessLefts(right.id) * HalfAngle]_vars

\* the children of the left child of the initial tree were just pushed: the
\* second, reached by a left and a right step, is upright again
C14_Witness ==
  /\ WellFormed(form)
  /\ last.op = "tick"
  /\ last.tree # << >>
  /\ last.tree[1].id = 2
  /\ last.dir = gardenDirector
  /\ LET q == directors[gardenDirector].trees
     IN  /\ Len(q) = 3
         /\ q[2].id = 4
         /\ q[2].treeIncline = -2 * HalfAngle
         /\ q[3].id = 5
         /\ q[3].treeIncline = 0
         /\ HalfAngle > 0


\* C15: every queued tree of the installed director has the branch ratio
\* and the branch angle read from the form, its maxTrunkHeight is a value
\* the constructor computes from the form, and no call changes the
\* maxTrunkHeight of a director.
C15_RatioAndAngleFixed ==
  [][/\ Running'
          => LET dir == directors'[gardenDirector']
                 q == dir.trees
             IN  /\ {q[i].branchRatio : i \in 1..Len(q)} \subseteq {RootRatio}
                 /\ {q[i].branchAngle : i \in 1..Len(q)}
                      \subseteq {ToRadians(ToNumber(form.branchAngle))}
                 /\ dir.maxTrunkHeight \in MaxTrunkHeights(InitialTrees(form)[1])
     /\ \A d \in DOMAIN directors \cap DOMAIN directors' :
          directors'[d].maxTrunkHeight = directors[d].maxTrunkHeight]_vars

\* a well-formed run with trees of generation 8 queued
C15_Witness ==
  /\ WellFormed(form)
  /\ Running
  /\ Len(tally.drawn) > 2^7
  /\ LET q == directors[gardenDirector].trees
     IN  Len(q) > 2 /\ q[Len(q)].gen = 8 /\ q[Len(q)].branchRatio = RootRatio


\* C16: both trees pushed after a drawing are rooted at the p1 of the drawn
\* tree, the point its trunk stroke ends at and its two branch strokes
\* start from.
C16_OriginPropagation ==
  [][(last'.op = "tick" /\ last'.tree # << >>)
       => LET front == last'.tree[1]
              q == directors[last'.dir].trees
              r == directors'[last'.dir].trees
              n == Len(canvas')
          IN  Len(r) > Len(q)
                => /\ r[Len(r) - 1].root = P1(front)
                   /\ r[Len(r)].root = r[Len(r) - 1].root
                   /\ n >= 3
                   /\ canvas'[n - 2].to = r[Len(r)].root
                   /\ canvas'[n - 1].from = r[Len(r)].root
                   /\ canvas'[n].from = r[Len(r)].root]_vars

\* the two children of a tree of generation 2 were just pushed, rooted at
\* one point that is not their parent's root
C16_Witness ==
  /\ WellFormed(form)
  /\ last.op = "tick"
  /\ last.tree # << >>
  /\ last.tree[1].gen = 2
  /\ last.dir = gardenDirector
  /\ LET q == directors[gardenDirector].trees
     IN  /\ Len(q) > 2
         /\ q[Len(q)].gen = 3
         /\ q[Len(q)].root = q[Len(q) - 1].root
         /\ q[Len(q)].root # last.tree[1].root

\* C17 as stated: with a branch ratio above 1 nothing is ever drawn,
\* whatever the trunk height.
C17_NothingDrawnAboveOne ==
  Less(Num(1, 1), RootRatio) => (canvas = << >> /\ tally.drawn = << >>)

\* C17: no call throws; with a branch ratio of 1, or a trunk height that
\* is 0 or not a number, every tick of the installed director draws a tree
\* and lengthens its queue by one, and the queue is never empty; with a
\* branch ratio above 1 and a positive trunk height the first tick discards
\* the initial tree, nothing is ever drawn and the queue is empty from then
\* on.
C17_RatioOutOfRange ==
  [][/\ ~last'.threw
     /\ (RootRatio = Num(1, 1) \/ RootHeight.nan \/ RootHeight = Num(0, 1))
          => /\ Running' => directors'[gardenDirector'].trees # << >>
             /\ (last'.op = "tick" /\ last'.dir = gardenDirector)
                  => /\ last'.tree # << >>
                     /\ Len(directors'[gardenDirector].trees)
                          = Len(directors[gardenDirector].trees) + 1
                     /\ Len(canvas') = Len(canvas) + 3
     /\ (Less(Num(1, 1), RootRatio) /\ Less(Num(0, 1), RootHeight))
          => /\ canvas' = << >>
             /\ tally'.drawn = << >>
             /\ Running'
                  => \/ /\ tally'.shifted = 0
                        /\ Len(directors'[gardenDirector'].trees) = 1
                     \/ /\ tally'.shifted = 1
                        /\ directors'[gardenDirector'].trees = << >>]_vars

\* with a ratio of 1, the 200th tick in a row has drawn a tree
C17_Witness ==
  /\ RootRatio = Num(1, 1)
  /\ Running
  /\ last.op = "tick"
  /\ tally.shifted = 200
  /\ Len(tally.drawn) = 200
  /\ Len(directors[gardenDirector].trees) = 201

\* C18: a tick that draws appends exactly three strokes: the trunk from p0
\* to p1, the left branch from p1 to p2 in the same style, and the right
\* branch from p1 to p3 in another style; a tick draws whenever it dequeues
\* a tree that is not below the threshold; a tick and a start() remove no
\* stroke, so that only stop() clears.
C18_ThreeStrokes ==
  [][/\ (last'.op = "tick" /\ canvas' # canvas)
          => /\ last'.tree # << >>
             /\ LET tree == last'.tree[1]
                    n == Len(canvas)
                IN  /\ Len(canvas') = n + 3
                    /\ canvas'[n + 1].from = tree.root
                    /\ canvas'[n + 1].to = P1(tree)
                    /\ canvas'[n + 2].from = P1(tree)
                    /\ canvas'[n + 2].to = P2(tree)
                    /\ canvas'[n + 3].from = P1(tree)
                    /\ canvas'[n + 3].to = P3(tree)
                    /\ canvas'[n + 2].style = canvas'[n + 1].style
                    /\ canvas'[n + 3].style # canvas'[n + 1].style
     /\ (last'.op = "tick" /\ last'.tree # << >>
           /\ ~Less(last'.tree[1].trunkHeight, directors[last'.dir].maxTrunkHeight))
          => canvas' # canvas
     /\ last'.op = "tick"
          => (Len(canvas') >= Len(canvas) /\ SubSeq(canvas', 1, Len(canvas)) = canvas)
     /\ last'.op = "start" => canvas' = canvas]_vars

\* a tree of a well-formed form was just drawn: three strokes, the branches
\* ending at two different points
C18_Witness ==
  /\ WellFormed(form)
  /\ last.op = "tick"
  /\ last.tree # << >>
  /\ Len(canvas) >= 6
  /\ canvas[Len(canvas) - 2].from = last.tree[1].root
  /\ canvas[Len(canvas) - 1].to # canvas[Len(canvas)].to
  /\ canvas[Len(canvas)].style = "#AA3340"

\* C19: whenever no director is installed the canvas is blank, and a tick
\* that fires then finds no tree, draws nothing and queues nothing.
C19_BlankWhileStopped ==
  [][/\ ~Running => canvas = << >>
     /\ ~Running' => canvas' = << >>
     /\ (~Running /\ last'.op = "tick")
          => (last'.tree = << >> /\ canvas' = canvas /\ directors' = directors)]_vars

\* the timer left over by a repeated start() ticks after the stop()
C19_Witness ==
  ~Running /\ last.op = "tick" /\ canvas = << >>

\* C20: for a branch ratio strictly between 0 and 1 no queue ever holds
\* more than 2^8 trees, nor a tree of a generation above 8.
C20_QueueBounded ==
  (Less(Num(0, 1), RootRatio) /\ Less(RootRatio, Num(1, 1)))
    => \A d \in DOMAIN directors :
         /\ Len(directors[d].trees) <= 2^8
         /\ \A i \in 1..Len(directors[d].trees) : directors[d].trees[i].gen <= 8

====
